---- MODULE Spec2Model ----
(***************************************************************************)
(* Model of ChessImageGenerator (src/src/chess-image-generator.js).        *)
(*                                                                         *)
(* One generator instance: its fields (chess, highlightedSquares, arrows,  *)
(* ready, size, padding, flipped), the calls of its public API, and the    *)
(* asynchronous continuations of generateBuffer / generatePNG (one step    *)
(* per await and per fs callback).                                         *)
(*                                                                         *)
(* Conventions                                                             *)
(*  - a square "a1" is the pair <<"a", 1>> (cols[...] + row(...));         *)
(*  - JavaScript arrays are 0-indexed, TLA+ sequences 1-indexed: x[n] in   *)
(*    the source is x[n + 1] here;                                         *)
(*  - pixel arithmetic is exact for sizes that are multiples of 16, the    *)
(*    only sizes drawn here, so size / 8 is size \div 8;                   *)
(*  - the colours this.light / this.dark / this.highlight are the opaque   *)
(*    values "light" / "dark" / "highlight";                               *)
(*  - the rules engine (chess.js 0.x: load, load_pgn, clear, put, get) is  *)
(*    an external library; its operations are modelled at their call sites *)
(*    by what the library does to the 64 squares; a board is the function  *)
(*    from its occupied squares to their pieces.                           *)
(***************************************************************************)
EXTENDS Integers, Sequences, FiniteSets, TLC

VARIABLES
    chess,               \* this.chess: the engine's board, occupied square -> piece
    highlightedSquares,  \* this.highlightedSquares
    arrows,              \* this.arrows: [defined, list]; undefined until addArrows
    ready,               \* this.ready
    size,                \* this.size
    padding,             \* this.padding: <<top, right, bottom, left>>
    flipped,             \* this.flipped
    calls,               \* number of API calls issued so far
    outcome,             \* the last API call: [call, result, arg]
    loadSucceeded,       \* history: some load call has returned without throwing
    render,              \* the generateBuffer / generatePNG calls issued so far
    crashed,             \* an exception was thrown inside an fs callback
    pass                 \* a pass of the coordinate mapping over all 64 cells

vars == <<chess, highlightedSquares, arrows, ready, size, padding, flipped,
          calls, outcome, loadSucceeded, render, crashed, pass>>

instance == <<chess, highlightedSquares, arrows, ready>>
config == <<size, padding, flipped>>

(***************************************************************************)
(* Bounds                                                                  *)
(***************************************************************************)
MaxCalls == 3
MaxRenderCalls == 4
MaxRenders == 2
MaxGridCells == 2

(***************************************************************************)
(* ./config/index and ./arrow (not part of the available sources)          *)
(***************************************************************************)
cols == <<"a", "b", "c", "d", "e", "f", "g", "h">>
white == <<"P", "B", "N", "R", "Q", "K">>
black == <<"p", "b", "n", "r", "q", "k">>
col2n(f) == (CHOOSE n \in DOMAIN cols : cols[n] = f) - 1

Files == {cols[n] : n \in DOMAIN cols}
Ranks == 1..8
Squares == Files \X Ranks

includes(list, x) == \E n \in DOMAIN list : list[n] = x

toLowerCase(c) ==
    IF includes(white, c)
    THEN black[CHOOSE n \in DOMAIN white : white[n] = c]
    ELSE IF c = "X" THEN "x" ELSE c

(***************************************************************************)
(* The rules engine (chess.js)                                             *)
(***************************************************************************)
NoPiece == [type |-> "", color |-> ""]
Piece(t, c) == [type |-> t, color |-> c]

EmptyBoard == << >>

BackRank == <<"r", "n", "b", "q", "k", "b", "n", "r">>

\* new Chess(): the standard starting position
DEFAULT_POSITION ==
    [s \in Files \X {1, 2, 7, 8} |->
        LET n == col2n(s[1]) + 1
        IN CASE s[2] = 1 -> Piece(BackRank[n], "w")
             [] s[2] = 2 -> Piece("p", "w")
             [] s[2] = 7 -> Piece("p", "b")
             [] OTHER -> Piece(BackRank[n], "b")]

\* chess.clear(); clear_keep is the faulty variant that keeps the old pieces
clear_keep(board) == board
clear(board) == EmptyBoard

\* chess.get(square)
get(board, square) == IF square \in DOMAIN board THEN board[square] ELSE NoPiece

\* chess.put(piece, square): refused for an unknown piece letter, for a square
\* off the board and for a second king of one colour
put(board, piece, square) ==
    IF ~ includes(black, toLowerCase(piece.type)) THEN board
    ELSE IF square \notin Squares THEN board
    ELSE IF /\ piece.type = "k"
            /\ \E s \in DOMAIN board : s # square /\ board[s] = Piece("k", piece.color)
         THEN board
    ELSE (square :> piece) @@ board

Occupied(board) == DOMAIN board

(***************************************************************************)
(* Inputs                                                                  *)
(***************************************************************************)
Place(board, letter, file, rank) ==
    (<<file, rank>> :>
        Piece(toLowerCase(letter), IF includes(white, letter) THEN "w" ELSE "b")) @@ board

\* "4k3/8/8/8/8/8/8/K7 w - - 0 1"
FenKings == Place(Place(EmptyBoard, "k", "e", 8), "K", "a", 1)
\* [SetUp "1"][FEN "4k3/8/8/8/8/8/8/K7 w - - 0 1"] 1. Kb2
PgnAfterKb2 == Place(Place(EmptyBoard, "k", "e", 8), "K", "b", 2)
\* [SetUp "1"][FEN "4k3/8/8/8/8/8/8/K7 w - - 0 1"] 1. Ka2 Kd7 2. Kc4
PgnAfterKd7 == Place(Place(EmptyBoard, "k", "d", 7), "K", "a", 2)

\* a FEN string, by what chess.load makes of it
FenInputs == { [ok |-> TRUE, position |-> FenKings],
               [ok |-> FALSE, position |-> EmptyBoard] }

\* a PGN string, by what chess.load_pgn makes of it: the value it returns and
\* the position it leaves (it resets the board, applies the headers and then
\* the moves up to the first one that cannot be played)
PgnInputs == { [ok |-> TRUE, reached |-> PgnAfterKb2],
               [ok |-> FALSE, reached |-> PgnAfterKd7] }

EmptyRow == <<"", "", "", "", "", "", "", "">>
EmptyGrid == <<EmptyRow, EmptyRow, EmptyRow, EmptyRow, EmptyRow, EmptyRow, EmptyRow, EmptyRow>>
SetCell(grid, i, j, letter) == [grid EXCEPT ![i + 1][j + 1] = letter]

\* size=400 scenario: a single "K" on the rank-8 / file-a cell
GridA8 == SetCell(EmptyGrid, 0, 0, "K")
GridSmall == { GridA8, SetCell(SetCell(EmptyGrid, 7, 0, "p"), 7, 7, "x") }

GridLetters == {"K", "k", "P", "x"}
GridCells == {<<0, 0>>, <<0, 1>>, <<7, 7>>}

RECURSIVE Fill(_, _, _)
Fill(grid, cells, letters) ==
    IF cells = {} THEN grid
    ELSE LET c == CHOOSE c \in cells : TRUE
         IN Fill(SetCell(grid, c[1], c[2], letters[c]), cells \ {c}, letters)

GridRich ==
    UNION { { Fill(EmptyGrid, cs, f) : f \in [cs -> GridLetters] } :
            cs \in {c \in SUBSET GridCells : Cardinality(c) <= MaxGridCells} }

HighlightInputs == { {}, {<<"a", 1>>}, {<<"a", 1>>, <<"a", 8>>} }

Arrow(f, t, c) == [from |-> f, to |-> t, color |-> c]
ArrowInputs == { <<>>,
                 <<Arrow(<<"a", 1>>, <<"a", 4>>, "red"),
                   Arrow(<<"h", 6>>, <<"e", 6>>, "darkgray")>> }

Sizes == {16, 400}
Paddings == { <<0, 0, 0, 0>>, <<288, 44, 268, 32>> }

(***************************************************************************)
(* Coordinate mapping (generateBuffer, lines 134-148 and 187-201)          *)
(***************************************************************************)
\* const row / const col; row_swapped is the faulty variant with the two
\* branches exchanged
row_swapped(fl, r) == IF fl THEN 7 - r + 1 ELSE r + 1
row(fl, r) == IF fl THEN r + 1 ELSE 7 - r + 1

col(fl, c) == IF fl THEN c ELSE 7 - c

\* const coords = cols[col(j)] + row(i)
Coords(fl, i, j) == <<cols[col(fl, j) + 1], row(fl, i)>>

\* the rectangle of ctx.rect / ctx.drawImage for cell (i, j);
\* CellRect_unmirrored is the faulty variant that paints column j at slot j
CellRect_unmirrored(i, j) ==
    << (size \div 8) * j + padding[4],
       (size \div 8) * i + padding[1],
       size \div 8,
       size \div 8 >>
CellRect(i, j) ==
    << (size \div 8) * (7 - j + 1) - size \div 8 + padding[4],
       (size \div 8) * i + padding[1],
       size \div 8,
       size \div 8 >>

\* (i + j) % 2 === 0; IsDark_odd is the faulty variant with the other parity
IsDark_odd(i, j) == (i + j) % 2 = 1
IsDark(i, j) == (i + j) % 2 = 0

\* createCanvas(width, height)
CanvasSize ==
    << size + padding[2] + padding[4], size + padding[1] + padding[3] >>

sq == size \div 8
rc2xy(a) == a * sq - sq \div 2

\* the pixel point of an arrow end on square s (s[1] file letter, s[2] rank)
ArrowEnd(fl, s) ==
    << rc2xy(8 - col(fl, col2n(s[1]))) + padding[4],
       rc2xy(row(fl, s[2] - 1)) + padding[1] >>

(***************************************************************************)
(* Draw operations issued on the canvas of one generateBuffer call         *)
(***************************************************************************)
DrawOp(kind, k, r, a) == [op |-> kind, cell |-> k, rect |-> r, arg |-> a]

Background == DrawOp("fill", -1, <<0, 0, CanvasSize[1], CanvasSize[2]>>, "light")

\* the fills of cell (i, j) with highlight set hl: dark square, then highlight;
\* CellFills_swapped is the faulty variant that fills the highlight first
CellFills_swapped(hl, fl, i, j) ==
    (IF Coords(fl, i, j) \in hl
     THEN << DrawOp("fill", 8 * i + j, CellRect(i, j), "highlight") >> ELSE << >>)
    \o (IF IsDark(i, j)
        THEN << DrawOp("fill", 8 * i + j, CellRect(i, j), "dark") >> ELSE << >>)
CellFills(hl, fl, i, j) ==
    (IF IsDark(i, j)
     THEN << DrawOp("fill", 8 * i + j, CellRect(i, j), "dark") >> ELSE << >>)
    \o (IF Coords(fl, i, j) \in hl
        THEN << DrawOp("fill", 8 * i + j, CellRect(i, j), "highlight") >> ELSE << >>)

\* ctx.drawImage of the sprite of the piece on cell k
Sprite(board, fl, k) ==
    LET i == k \div 8
        j == k % 8
        piece == get(board, Coords(fl, i, j))
    IN DrawOp("drawImage", k, CellRect(i, j), piece.color \o piece.type)

\* drawArrow(ctx, fromX, fromY, toX, toY, sq / 10, arrow.color); the log keeps
\* the two end points and the colour
ArrowOp(fl, arrow) ==
    DrawOp("drawArrow", 64, ArrowEnd(fl, arrow.from) \o ArrowEnd(fl, arrow.to),
           arrow.color)

\* the instance fields a render reads
State == [chess |-> chess, highlightedSquares |-> highlightedSquares,
          arrows |-> arrows]

\* the piece test of the loop: piece && piece.type !== "" && black.includes(...)
HasSprite(board, fl, k) ==
    LET piece == get(board, Coords(fl, k \div 8, k % 8))
    IN /\ piece # NoPiece
       /\ piece.type # ""
       /\ includes(black, toLowerCase(piece.type))

NoOp == DrawOp("none", -1, << >>, "")
Issued(o) == o.op # "none"

\* the fills of the cells a..b in loop order
FillsOf(hl, fl, a, b) ==
    LET slot(n) ==
            LET k == a + (n - 1) \div 2
                f == CellFills(hl, fl, k \div 8, k % 8)
                m == ((n - 1) % 2) + 1
            IN IF m <= Len(f) THEN f[m] ELSE NoOp
    IN SelectSeq([n \in 1..(2 * (b - a + 1)) |-> slot(n)], Issued)

\* the cell loop from cell k on, up to the next await: it stops at the first
\* occupied cell (await loadImage) or leaves the loop at k = 64
RunCells(st, fl, log, k) ==
    LET occ == {m \in k..63 : HasSprite(st.chess, fl, m)}
        stop == IF occ = {} THEN 64 ELSE CHOOSE m \in occ : \A n \in occ : m <= n
        last == IF stop = 64 THEN 63 ELSE stop
    IN [ops |-> log \o FillsOf(st.highlightedSquares, fl, k, last), k |-> stop]

\* this.arrows.forEach(...) and frame.toBuffer(): a TypeError when this.arrows
\* is undefined
Arrows(st, fl, log) ==
    IF ~ st.arrows.defined
    THEN [result |-> "TypeError", ops |-> log]
    ELSE [result |-> "Buffer",
          ops |-> log \o [n \in DOMAIN st.arrows.list |-> ArrowOp(fl, st.arrows.list[n])]]

\* a whole render without interleaving, from the fields st: per cell the
\* fills and then the sprite, then the arrows
Sequential(st, fl) ==
    LET slot(n) ==
            LET k == (n - 1) \div 3
                f == CellFills(st.highlightedSquares, fl, k \div 8, k % 8)
                m == ((n - 1) % 3) + 1
            IN IF m <= 2
               THEN (IF m <= Len(f) THEN f[m] ELSE NoOp)
               ELSE (IF HasSprite(st.chess, fl, k) THEN Sprite(st.chess, fl, k) ELSE NoOp)
    IN Arrows(st, fl, <<Background>> \o SelectSeq([n \in 1..192 |-> slot(n)], Issued))

(***************************************************************************)
(* Construction                                                            *)
(***************************************************************************)
NoCall == [call |-> "new", result |-> "ok", arg |-> << >>]
NewPass == [phase |-> "new", canvas |-> << >>, cells |-> << >>, ends |-> << >>]

\* new ChessImageGenerator({size, padding, flipped})
Construct(sz, pad, fl) ==
    /\ chess = DEFAULT_POSITION
    /\ highlightedSquares = {}
    /\ arrows = [defined |-> FALSE, list |-> << >>]
    /\ size = sz
    /\ padding = pad
    /\ flipped = fl
    /\ ready = FALSE
    /\ calls = 0
    /\ outcome = NoCall
    /\ loadSucceeded = FALSE
    /\ render = << >>
    /\ crashed = FALSE
    /\ pass = NewPass

Init == \E fl \in BOOLEAN : Construct(400, <<0, 0, 0, 0>>, fl)

InitLoad == Construct(400, <<0, 0, 0, 0>>, FALSE)

InitMap == \E sz \in Sizes, pad \in Paddings, fl \in BOOLEAN : Construct(sz, pad, fl)

(***************************************************************************)
(* API calls                                                               *)
(***************************************************************************)
Called(name, res, a) ==
    /\ ~ crashed
    /\ calls' = calls + 1
    /\ outcome' = [call |-> name, result |-> res, arg |-> a]

InFlight == {"loadImage", "drawImage"}

\* history: a field was written while a render was suspended
Touch(rs) ==
    IF rs = << >> THEN << >>
    ELSE [n \in DOMAIN rs |->
            IF rs[n].pc \in InFlight THEN [rs[n] EXCEPT !.dirty = TRUE] ELSE rs[n]]

\* loadPGN: chess.load_pgn works on the live board (reset, headers, moves up
\* to the first unplayable one) and then reports success or failure
LoadPGN(pgn) ==
    /\ chess' = pgn.reached
    /\ IF ~ pgn.ok
       THEN /\ Called("loadPGN", "ParseError", << >>)
            /\ UNCHANGED <<ready, loadSucceeded>>
       ELSE /\ Called("loadPGN", "ok", << >>)
            /\ ready' = TRUE
            /\ loadSucceeded' = TRUE
    /\ render' = Touch(render)
    /\ UNCHANGED <<highlightedSquares, arrows, config, crashed, pass>>

\* loadFEN: chess.load validates the string before it touches the board;
\* LoadFEN_unready is the faulty variant that clears ready on a rejected load
LoadFEN_unready(fen) ==
    /\ IF ~ fen.ok
       THEN /\ Called("loadFEN", "ParseError", << >>)
            /\ ready' = FALSE
            /\ UNCHANGED <<chess, loadSucceeded>>
       ELSE /\ Called("loadFEN", "ok", << >>)
            /\ chess' = fen.position
            /\ ready' = TRUE
            /\ loadSucceeded' = TRUE
    /\ render' = Touch(render)
    /\ UNCHANGED <<highlightedSquares, arrows, config, crashed, pass>>
LoadFEN(fen) ==
    /\ IF ~ fen.ok
       THEN /\ Called("loadFEN", "ParseError", << >>)
            /\ UNCHANGED <<chess, ready, loadSucceeded>>
       ELSE /\ Called("loadFEN", "ok", << >>)
            /\ chess' = fen.position
            /\ ready' = TRUE
            /\ loadSucceeded' = TRUE
    /\ render' = Touch(render)
    /\ UNCHANGED <<highlightedSquares, arrows, config, crashed, pass>>

AddArrows(list) ==
    /\ Called("addArrows", "ok", << >>)
    /\ arrows' = [defined |-> TRUE, list |-> list]
    /\ render' = Touch(render)
    /\ UNCHANGED <<chess, highlightedSquares, ready, loadSucceeded, config, crashed, pass>>

\* the inner loop of loadArray on row i, from column j on
RECURSIVE PutRow(_, _, _, _)
PutRow(board, array, i, j) ==
    IF j >= Len(array[i + 1]) THEN board
    ELSE LET c == array[i + 1][j + 1]
         IN IF c # "" /\ includes(black, toLowerCase(c))
            THEN PutRow(put(board,
                            Piece(toLowerCase(c),
                                  IF includes(white, c) THEN "w" ELSE "b"),
                            <<cols[j + 1], 8 - i>>),
                        array, i, j + 1)
            ELSE PutRow(board, array, i, j + 1)

\* the outer loop of loadArray, from row i on
RECURSIVE PutCells(_, _, _)
PutCells(board, array, i) ==
    IF i >= Len(array) THEN board
    ELSE PutCells(PutRow(board, array, i, 0), array, i + 1)

LoadArray(array) ==
    /\ Called("loadArray", "ok", array)
    /\ chess' = PutCells(clear(chess), array, 0)
    /\ ready' = TRUE
    /\ loadSucceeded' = TRUE
    /\ render' = Touch(render)
    /\ UNCHANGED <<highlightedSquares, arrows, config, crashed, pass>>

HighlightSquares(array) ==
    /\ Called("highlightSquares", "ok", << >>)
    /\ highlightedSquares' = array
    /\ render' = Touch(render)
    /\ UNCHANGED <<chess, arrows, ready, loadSucceeded, config, crashed, pass>>

(***************************************************************************)
(* generateBuffer and generatePNG                                          *)
(***************************************************************************)
\* a generateBuffer / generatePNG call: its position in the code (pc, k), its
\* canvas log (ops), what its caller has observed (result), the file, the
\* number of fs.open calls and the uncaught errors of generatePNG, and two
\* history fields: the fields of the
\* generator when the call was made (snap) and whether a setter or load was
\* called while it was suspended (dirty)
NewRender(kind) ==
    [kind |-> kind, pc |-> "start", k |-> 0, ops |-> << >>, result |-> "pending",
     file |-> "none", uncaught |-> FALSE, opens |-> 0,
     snap |-> State, dirty |-> FALSE]

\* the end of generateBuffer: the promise of a generateBuffer call settles;
\* generatePNG resumes after its await, calls fs.open and returns, or rejects
\* with the error of generateBuffer
Settled(r, fin) ==
    IF r.kind = "png" /\ fin.result = "Buffer"
    THEN [r EXCEPT !.pc = "fsOpen", !.k = 64, !.ops = fin.ops,
                   !.result = "Resolved", !.opens = 1]
    ELSE [r EXCEPT !.pc = "done", !.k = 64, !.ops = fin.ops, !.result = fin.result]

\* the cell loop from cell k on with the canvas log: suspend at the next
\* sprite, or draw the arrows and finish
Continue(r, log, k) ==
    LET c == RunCells(State, flipped, log, k)
    IN IF c.k = 64
       THEN Settled(r, Arrows(State, flipped, c.ops))
       ELSE [r EXCEPT !.pc = "loadImage", !.k = c.k, !.ops = c.ops]

\* the call, up to its first await
Generate(kind, name) ==
    /\ Len(render) < MaxRenders
    /\ IF ~ ready
       THEN /\ Called(name, "NotReady", << >>)
            /\ render' = Append(render, [NewRender(kind) EXCEPT !.pc = "done",
                                                               !.result = "NotReady"])
       ELSE /\ Called(name, "pending", << >>)
            /\ render' = Append(render, Continue(NewRender(kind), <<Background>>, 0))
    /\ UNCHANGED <<instance, loadSucceeded, config, crashed, pass>>

GenerateBuffer == Generate("buffer", "generateBuffer")

GeneratePNG == Generate("png", "generatePNG")

\* await loadImage(...) resumes (the sprite files of a valid style exist):
\* ctx.drawImage is called and awaited; LoadImageResolved_consuming is the
\* faulty variant that empties the highlight list as it draws
LoadImageResolved_consuming(n) ==
    /\ ~ crashed
    /\ render[n].pc = "loadImage"
    /\ render' = [render EXCEPT ![n].pc = "drawImage",
                                ![n].ops = Append(@, Sprite(chess, flipped, render[n].k))]
    /\ highlightedSquares' = {}
    /\ UNCHANGED <<chess, arrows, ready, loadSucceeded, config, calls, outcome, crashed, pass>>
LoadImageResolved(n) ==
    /\ ~ crashed
    /\ render[n].pc = "loadImage"
    /\ render' = [render EXCEPT ![n].pc = "drawImage",
                                ![n].ops = Append(@, Sprite(chess, flipped, render[n].k))]
    /\ UNCHANGED <<instance, loadSucceeded, config, calls, outcome, crashed, pass>>

\* await ctx.drawImage(...) resumes: the loop goes on with the next cell
DrawImageResolved(n) ==
    /\ ~ crashed
    /\ render[n].pc = "drawImage"
    /\ render' = [render EXCEPT ![n] = Continue(@, @.ops, @.k + 1)]
    /\ UNCHANGED <<instance, loadSucceeded, config, calls, outcome, crashed, pass>>

\* the callback of fs.open: it throws on err, else calls fs.write; an error
\* thrown in a callback is uncaught and ends the process
FsOpenCallback(n, err) ==
    /\ ~ crashed
    /\ render[n].pc = "fsOpen"
    /\ IF err
       THEN /\ render' = [render EXCEPT ![n].pc = "done", ![n].file = "openFailed",
                                        ![n].uncaught = TRUE]
            /\ crashed' = TRUE
       ELSE /\ render' = [render EXCEPT ![n].pc = "fsWrite", ![n].file = "open"]
            /\ UNCHANGED crashed
    /\ UNCHANGED <<instance, loadSucceeded, config, calls, outcome, pass>>

\* the callback of fs.write: it throws on writeError, else calls fs.close
FsWriteCallback(n, writeError) ==
    /\ ~ crashed
    /\ render[n].pc = "fsWrite"
    /\ IF writeError
       THEN /\ render' = [render EXCEPT ![n].pc = "done", ![n].file = "writeFailed",
                                        ![n].uncaught = TRUE]
            /\ crashed' = TRUE
       ELSE /\ render' = [render EXCEPT ![n].pc = "done", ![n].file = "written"]
            /\ UNCHANGED crashed
    /\ UNCHANGED <<instance, loadSucceeded, config, calls, outcome, pass>>

(***************************************************************************)
(* A pass of the coordinate mapping: the canvas, the 64 cells in loop      *)
(* order, then an arrow end on every square                                *)
(***************************************************************************)
SquareAt(n) == <<cols[(n % 8) + 1], (n \div 8) + 1>>

CreateCanvas ==
    /\ pass.phase = "new"
    /\ pass' = [pass EXCEPT !.phase = "cells", !.canvas = CanvasSize]
    /\ UNCHANGED <<instance, loadSucceeded, config, calls, outcome, render, crashed>>

MapCell ==
    /\ pass.phase = "cells"
    /\ LET k == Len(pass.cells)
           i == k \div 8
           j == k % 8
           c == [i |-> i, j |-> j, coords |-> Coords(flipped, i, j),
                 dark |-> IsDark(i, j), rect |-> CellRect(i, j)]
       IN pass' = [pass EXCEPT !.cells = Append(@, c),
                               !.phase = IF k = 63 THEN "ends" ELSE "cells"]
    /\ UNCHANGED <<instance, loadSucceeded, config, calls, outcome, render, crashed>>

MapArrowEnd ==
    /\ pass.phase = "ends"
    /\ Len(pass.ends) < 64
    /\ LET s == SquareAt(Len(pass.ends))
       IN pass' = [pass EXCEPT !.ends = Append(@, [square |-> s,
                                                  point |-> ArrowEnd(flipped, s)])]
    /\ UNCHANGED <<instance, loadSucceeded, config, calls, outcome, render, crashed>>

(***************************************************************************)
(* Specifications                                                          *)
(***************************************************************************)
Next ==
    \/ calls < MaxCalls /\ \E pgn \in PgnInputs : LoadPGN(pgn)
    \/ calls < MaxCalls /\ \E fen \in FenInputs : LoadFEN(fen)
    \/ calls < MaxCalls /\ \E list \in ArrowInputs : AddArrows(list)
    \/ calls < MaxCalls /\ \E array \in GridSmall : LoadArray(array)
    \/ calls < MaxCalls /\ \E array \in HighlightInputs : HighlightSquares(array)
    \/ calls < MaxCalls /\ GenerateBuffer
    \/ calls < MaxCalls /\ GeneratePNG
    \/ \E n \in DOMAIN render : LoadImageResolved(n)
    \/ \E n \in DOMAIN render : DrawImageResolved(n)
    \/ \E n \in DOMAIN render, err \in BOOLEAN : FsOpenCallback(n, err)
    \/ \E n \in DOMAIN render, err \in BOOLEAN : FsWriteCallback(n, err)

Spec == Init /\ [][Next]_vars

\* renders of one loaded position, with the setters interleaved
NextRender ==
    \/ calls < MaxRenderCalls /\ \E fen \in FenInputs : LoadFEN(fen)
    \/ calls < MaxRenderCalls /\ \E list \in ArrowInputs : AddArrows(list)
    \/ calls < MaxRenderCalls /\ \E array \in HighlightInputs : HighlightSquares(array)
    \/ calls < MaxRenderCalls /\ GenerateBuffer
    \/ \E n \in DOMAIN render : LoadImageResolved(n)
    \/ \E n \in DOMAIN render : DrawImageResolved(n)

SpecRender == Init /\ [][NextRender]_vars

\* position loads only, with grids of up to MaxGridCells letters
NextLoad ==
    \/ calls < MaxCalls /\ \E pgn \in PgnInputs : LoadPGN(pgn)
    \/ calls < MaxCalls /\ \E fen \in FenInputs : LoadFEN(fen)
    \/ calls < MaxCalls /\ \E array \in GridRich : LoadArray(array)

SpecLoad == InitLoad /\ [][NextLoad]_vars

\* the mapping pass, then renders of the single-king grid
PassDone == pass.phase = "ends" /\ Len(pass.ends) = 64

NextMap ==
    \/ CreateCanvas
    \/ MapCell
    \/ MapArrowEnd
    \/ PassDone /\ calls < MaxCalls /\ LoadArray(GridA8)
    \/ PassDone /\ calls < MaxCalls /\ GenerateBuffer
    \/ PassDone /\ \E n \in DOMAIN render : LoadImageResolved(n)
    \/ PassDone /\ \E n \in DOMAIN render : DrawImageResolved(n)

SpecMap == InitMap /\ [][NextMap]_vars

TypeOK ==
    /\ ready \in BOOLEAN
    /\ Len(render) <= MaxRenders

(***************************************************************************)
(* Readiness                                                               *)
(***************************************************************************)

\* C1: rendering fails with "Load a position first" exactly when no load call
\* has succeeded so far: ready is true iff some load call has returned without
\* throwing, and a generateBuffer / generatePNG call is rejected as NotReady
\* iff that is not yet the case.
ReadyIffLoaded ==
    /\ [](ready = loadSucceeded)
    /\ [][(calls' # calls /\ outcome'.call \in {"generateBuffer", "generatePNG"})
            => (outcome'.result = "NotReady" <=> ~ loadSucceeded)]_vars

\* a render was refused before the first load and one was accepted after it
RefusedThenAccepted ==
    /\ loadSucceeded
    /\ \E m, n \in DOMAIN render :
          /\ m < n
          /\ render[m].result = "NotReady"
          /\ render[n].result # "NotReady"

\* C2 (as claimed): a generateBuffer call accepted after a successful load
\* succeeds, whether or not addArrows was ever called.
RenderSucceedsWithoutArrows ==
    \A n \in DOMAIN render :
        (render[n].kind = "buffer" /\ render[n].pc = "done"
            /\ render[n].result # "NotReady")
        => render[n].result = "Buffer"

\* C3 (as claimed): a load call that raises a parse error leaves ready, the
\* position, the highlight set and the arrow list as they were.
FailedLoadLeavesState ==
    [][(calls' # calls /\ outcome'.result = "ParseError")
        => UNCHANGED <<ready, chess, highlightedSquares, arrows>>]_vars

\* C9 (as claimed): when opening or writing the file fails, generatePNG has not
\* reported success to its caller.
WriteFailureSurfaced ==
    \A n \in DOMAIN render :
        (render[n].kind = "png" /\ render[n].file \in {"openFailed", "writeFailed"})
        => render[n].result # "Resolved"

(***************************************************************************)
(* loadArray                                                               *)
(***************************************************************************)

\* C4 (as claimed): after loadArray(grid) the generator is ready, every
\* non-empty cell grid[i][j] has its piece on square cols[j] + (8 - i), every
\* other square is empty, and there are as many occupied squares as non-empty
\* cells.
GridLoadedCellForCell ==
    outcome.call = "loadArray" =>
        LET grid == outcome.arg
            cell(i, j) == grid[i + 1][j + 1]
            upper(c) == c \in {"P", "B", "N", "R", "Q", "K", "X"}
        IN /\ ready
           /\ \A i, j \in 0..7 :
                get(chess, <<cols[j + 1], 8 - i>>) =
                    IF cell(i, j) # ""
                    THEN Piece(toLowerCase(cell(i, j)),
                               IF upper(cell(i, j)) THEN "w" ELSE "b")
                    ELSE NoPiece
           /\ Cardinality(Occupied(chess)) =
                Cardinality({c \in (0..7) \X (0..7) : cell(c[1], c[2]) # ""})

\* C4 (amended): after loadArray(grid) the generator is ready and the position
\* is a function of grid alone.  A cell counts when its letter is one of
\* p, b, n, r, q, k in either case and, for a king, no earlier cell in
\* row-major order holds a king of the same colour.  Every counted cell has its
\* piece (kind = lowercase letter, white iff uppercase) on square
\* cols[j] + (8 - i), every other square is empty, and there are as many
\* occupied squares as counted cells.
GridLoadedPieceLetters ==
    outcome.call = "loadArray" =>
        LET grid == outcome.arg
            cell(i, j) == grid[i + 1][j + 1]
            upper(c) == c \in {"P", "B", "N", "R", "Q", "K"}
            letter(c) == c \in {"p", "b", "n", "r", "q", "k",
                                "P", "B", "N", "R", "Q", "K"}
            counted(i, j) ==
                /\ letter(cell(i, j))
                /\ cell(i, j) \in {"K", "k"} =>
                      ~ \E i2, j2 \in 0..7 :
                            /\ 8 * i2 + j2 < 8 * i + j
                            /\ cell(i2, j2) = cell(i, j)
        IN /\ ready
           /\ \A i, j \in 0..7 :
                get(chess, <<cols[j + 1], 8 - i>>) =
                    IF counted(i, j)
                    THEN Piece(toLowerCase(cell(i, j)),
                               IF upper(cell(i, j)) THEN "w" ELSE "b")
                    ELSE NoPiece
           /\ Cardinality(Occupied(chess)) =
                Cardinality({c \in (0..7) \X (0..7) : counted(c[1], c[2])})
           /\ Occupied(chess) \subseteq Squares

\* a grid with a piece letter and a non-piece letter was loaded over an
\* earlier load
GridLoadedOverEarlierLoad ==
    /\ outcome.call = "loadArray"
    /\ calls >= 2
    /\ \E i, j \in 1..8 : outcome.arg[i][j] = "x"
    /\ \E i, j \in 1..8 : outcome.arg[i][j] = "P"
    /\ Cardinality(Occupied(chess)) = 1

(***************************************************************************)
(* Coordinate mapping                                                      *)
(***************************************************************************)

\* C5: for the flip state of the generator the cells (i, j) are labelled with
\* pairwise distinct squares, all 64 of them once the loop is over, and the
\* point computed for an arrow end on square s is the centre of the rectangle
\* of the one cell labelled s.
ArrowEndIsCellCentre ==
    LET cells == pass.cells
        ends == pass.ends
    IN /\ \A m, n \in DOMAIN cells :
            /\ cells[m].coords \in Squares
            /\ m # n => cells[m].coords # cells[n].coords
       /\ Len(cells) = 64 => {cells[m].coords : m \in DOMAIN cells} = Squares
       /\ \A e \in DOMAIN ends :
            /\ Cardinality({m \in DOMAIN cells :
                              cells[m].coords = ends[e].square}) = 1
            /\ \A m \in DOMAIN cells :
                  cells[m].coords = ends[e].square =>
                      ends[e].point =
                          << cells[m].rect[1] + cells[m].rect[3] \div 2,
                             cells[m].rect[2] + cells[m].rect[4] \div 2 >>

\* all cells and all arrow ends of a flipped, padded board have been mapped
FlippedBoardMapped ==
    /\ flipped
    /\ padding[4] # 0
    /\ Len(pass.cells) = 64
    /\ Len(pass.ends) = 64

\* C6: unflipped, the square with file index n and rank r is drawn at column
\* n from the left and row 8 - r from the top; flipped, at column 7 - n and
\* row r - 1, which is the point reflection of its unflipped rectangle through
\* the centre of the board.  With size 400 and no padding the sprite of a
\* piece on a8 is drawn into <<0, 0, 50, 50>> unflipped and into
\* <<350, 350, 50, 50>> flipped.
FlipRotatesBoard ==
    LET cells == pass.cells
        left == padding[4]
        top == padding[1]
        rectOf(fl, s) ==
            LET k == CHOOSE k \in 0..63 : Coords(fl, k \div 8, k % 8) = s
            IN CellRect(k \div 8, k % 8)
        reflected(r) ==
            << 2 * left + size - r[1] - r[3], 2 * top + size - r[2] - r[4],
               r[3], r[4] >>
    IN /\ \A m \in DOMAIN cells :
            LET n == col2n(cells[m].coords[1])
                r == cells[m].coords[2]
            IN /\ cells[m].rect =
                    IF flipped
                    THEN << (7 - n) * sq + left, (r - 1) * sq + top, sq, sq >>
                    ELSE << n * sq + left, (8 - r) * sq + top, sq, sq >>
               /\ rectOf(~ flipped, cells[m].coords) = reflected(cells[m].rect)
       /\ \A n \in DOMAIN render : \A p \in DOMAIN render[n].ops :
            LET o == render[n].ops[p]
            IN (/\ o.op = "drawImage"
                /\ Coords(flipped, o.cell \div 8, o.cell % 8) = <<"a", 8>>
                /\ size = 400
                /\ padding = <<0, 0, 0, 0>>)
               => o.rect = IF flipped THEN <<350, 350, 50, 50>>
                                      ELSE <<0, 0, 50, 50>>

\* flipped, size 400, no padding: all cells are mapped and the king on a8 has
\* been drawn into the bottom-right cell
KingDrawnBottomRight ==
    /\ flipped
    /\ size = 400
    /\ Len(pass.cells) = 64
    /\ \E n \in DOMAIN render : \E p \in DOMAIN render[n].ops :
          /\ render[n].ops[p].op = "drawImage"
          /\ render[n].ops[p].arg = "wk"
          /\ render[n].ops[p].rect = <<350, 350, 50, 50>>

\* C7: a cell is dark iff i + j is even; its rectangle is column 7 - j, row i
\* of the board area, whatever the flip flag; the canvas is
\* size + left + right wide and size + top + bottom high; the dark fills of a
\* render are on the dark cells only; unflipped, the cell labelled a1 is dark
\* and the cell labelled h1 is light.
DarkCellsFixed ==
    LET cells == pass.cells
        top == padding[1]
        right == padding[2]
        bottom == padding[3]
        left == padding[4]
        slot(i, j) == << (7 - j) * sq + left, i * sq + top, sq, sq >>
    IN /\ pass.phase # "new" =>
            pass.canvas = << size + left + right, size + top + bottom >>
       /\ \A m \in DOMAIN cells :
            /\ cells[m].dark <=> (cells[m].i + cells[m].j) % 2 = 0
            /\ cells[m].rect = slot(cells[m].i, cells[m].j)
            /\ ~ flipped =>
                 /\ cells[m].coords = <<"a", 1>> => cells[m].dark
                 /\ cells[m].coords = <<"h", 1>> => ~ cells[m].dark
       /\ \A n \in DOMAIN render : \A p \in DOMAIN render[n].ops :
            LET o == render[n].ops[p]
            IN /\ o.arg = "light" =>
                    o.rect = << 0, 0, size + left + right, size + top + bottom >>
               /\ o.arg = "dark" =>
                    /\ ((o.cell \div 8) + (o.cell % 8)) % 2 = 0
                    /\ o.rect = slot(o.cell \div 8, o.cell % 8)

\* unflipped and padded: all cells are mapped and a render has filled dark cells
UnflippedBoardMapped ==
    /\ ~ flipped
    /\ padding[2] # padding[4]
    /\ Len(pass.cells) = 64
    /\ \E n \in DOMAIN render : \E p \in DOMAIN render[n].ops :
          render[n].ops[p].arg = "dark"

(***************************************************************************)
(* Rendering                                                               *)
(***************************************************************************)

\* C8: the canvas log of every render starts with the full-canvas light fill;
\* after it the operations come cell by cell in row-major order, within a cell
\* the dark fill, then the highlight fill, then the sprite, and all arrows come
\* after the 64 cells; a render that finished without a setter or load
\* interleaved has issued the dark fill on exactly the dark cells, the
\* highlight fill on exactly the highlighted squares, the sprite on exactly the
\* occupied squares and the arrows in list order, and the last fill on the
\* rectangle of a highlighted square is the highlight colour.
LayerOrder ==
    \A n \in DOMAIN render :
        LET r == render[n]
            log == r.ops
            layer(o) ==
                CASE o.op = "drawArrow" -> 4 * 64
                  [] o.op = "drawImage" -> 4 * o.cell + 3
                  [] o.arg = "highlight" -> 4 * o.cell + 2
                  [] o.arg = "dark" -> 4 * o.cell + 1
                  [] OTHER -> -1
            coords(k) == Coords(flipped, k \div 8, k % 8)
            has(k, kind, a) ==
                \E p \in DOMAIN log :
                    log[p].cell = k /\ log[p].op = kind /\ log[p].arg = a
            arrowOps == SelectSeq(log, LAMBDA o : o.op = "drawArrow")
        IN /\ log # << >> =>
                /\ log[1].op = "fill"
                /\ log[1].arg = "light"
                /\ log[1].rect = <<0, 0, CanvasSize[1], CanvasSize[2]>>
           /\ \A p, q \in DOMAIN log :
                p < q =>
                    /\ layer(log[p]) <= layer(log[q])
                    /\ layer(log[p]) = layer(log[q]) => log[q].op = "drawArrow"
           /\ (r.pc = "done" /\ r.result \in {"Buffer", "TypeError"} /\ ~ r.dirty) =>
                /\ \A k \in 0..63 :
                     /\ has(k, "fill", "dark") <=> ((k \div 8) + (k % 8)) % 2 = 0
                     /\ has(k, "fill", "highlight")
                            <=> coords(k) \in r.snap.highlightedSquares
                     /\ (\E p \in DOMAIN log : log[p].cell = k /\ log[p].op = "drawImage")
                            <=> coords(k) \in Occupied(r.snap.chess)
                /\ r.result = "Buffer" =>
                     /\ Len(arrowOps) = Len(r.snap.arrows.list)
                     /\ \A a \in DOMAIN arrowOps :
                          /\ arrowOps[a].arg = r.snap.arrows.list[a].color
                          /\ arrowOps[a].rect =
                                ArrowEnd(flipped, r.snap.arrows.list[a].from)
                                \o ArrowEnd(flipped, r.snap.arrows.list[a].to)
                /\ \A k \in 0..63 :
                     coords(k) \in r.snap.highlightedSquares =>
                        LET fills == {p \in DOMAIN log :
                                        /\ log[p].op = "fill"
                                        /\ log[p].rect = CellRect(k \div 8, k % 8)}
                            last == CHOOSE p \in fills : \A q \in fills : q <= p
                        IN log[last].arg = "highlight"

\* a finished render of a position with a highlighted, occupied dark square
\* and two arrows
AllLayersDrawn ==
    \E n \in DOMAIN render :
        LET log == render[n].ops
        IN /\ render[n].pc = "done"
           /\ render[n].result = "Buffer"
           /\ ~ render[n].dirty
           /\ \E k \in 0..63 :
                /\ \E p \in DOMAIN log : log[p].cell = k /\ log[p].arg = "dark"
                /\ \E p \in DOMAIN log : log[p].cell = k /\ log[p].arg = "highlight"
                /\ \E p \in DOMAIN log : log[p].cell = k /\ log[p].op = "drawImage"
           /\ Len(SelectSeq(log, LAMBDA o : o.op = "drawArrow")) = 2

\* C10: no step of generateBuffer (the call or a resumption after an await)
\* writes the position, the highlight set, the arrow list, the ready flag or
\* the configuration; and a render during which no setter or load was called
\* ends with the result and the canvas log of an uninterrupted render of the
\* fields it started from, however the steps of other renders were
\* interleaved with its own.
RenderReadOnly ==
    /\ [][(calls' = calls \/ outcome'.call = "generateBuffer")
            => UNCHANGED <<chess, highlightedSquares, arrows, ready,
                           size, padding, flipped>>]_vars
    /\ [](\A n \in DOMAIN render :
            (render[n].pc = "done" /\ render[n].result # "NotReady"
                /\ ~ render[n].dirty)
            => LET seq == Sequential(render[n].snap, flipped)
               IN /\ render[n].result = seq.result
                  /\ render[n].ops = seq.ops)

\* the second of two renders has finished while the first is still suspended
\* and no setter or load was called during either
RendersInterleaved ==
    /\ Len(render) = 2
    /\ render[1].pc = "drawImage"
    /\ ~ render[1].dirty
    /\ render[2].pc = "done"
    /\ render[2].result = "Buffer"
    /\ ~ render[2].dirty
    /\ render[2].snap = render[1].snap

====
